---- MODULE Spec2Model ----
(***************************************************************************)
(* A model of tf.py, the batch video-to-MP4 transformer.                   *)
(*                                                                         *)
(* The program is sequential.  Its state is the disk (which paths exist    *)
(* and what they hold), the arguments of main, the position of the         *)
(* dispatch loop and the locals of the transform_video call in progress.   *)
(* File names are sequences of one-character strings, so that split('.'),  *)
(* upper() and the naming of the output file are computed as the code      *)
(* computes them.                                                          *)
(*                                                                         *)
(* The two external tools are modelled by their effect on the disk when    *)
(* they succeed: ffmpeg writes the output file, exiftool reads the         *)
(* metadata of a file and writes tags onto a file, keeping (or not) a      *)
(* backup copy named <file>_original.                                      *)
(***************************************************************************)
EXTENDS Naturals, Sequences, FiniteSets

VARIABLES
    input_files,      \* main's input_files argument
    recursive,        \* main's recursive argument
    dryrun,           \* main's dryrun argument
    force,            \* main's force argument
    erase,            \* main's erase argument
    disk,             \* the file system: path -> entry
    pc,               \* position in the program
    input_file_list,  \* the list dispatch_transformation iterates over
    idx,              \* position of the for loop of dispatch_transformation
    input_file,       \* transform_video: its input_file parameter
    output_file,      \* transform_video: its output_file local
    datetags,         \* transform_video: its datetags local
    run,              \* number of the invocation of the program (1, 2, ...)
    disk0,            \* history: the disk when this invocation started
    entry_disk,       \* history: the disk when the current transform_video call started
    trace             \* history: the operations performed by this invocation

vars == <<input_files, recursive, dryrun, force, erase, disk, pc, input_file_list,
          idx, input_file, output_file, datetags, run, disk0, entry_disk, trace>>

\* ------------------------------------------------------------------ bounds

\* Longest argument list given to main.
MaxBatch == 2

\* Number of invocations of the program over the same disk.
MaxRuns == 2

\* ------------------------------------------------------------------ strings

LowerChars == <<"a","b","c","d","e","f","g","h","i","j","k","l","m",
                "n","o","p","q","r","s","t","u","v","w","x","y","z">>
UpperChars == <<"A","B","C","D","E","F","G","H","I","J","K","L","M",
                "N","O","P","Q","R","S","T","U","V","W","X","Y","Z">>

\* str.upper(), one character.
UpperChar(c) ==
    IF \E i \in 1..Len(LowerChars) : LowerChars[i] = c
    THEN UpperChars[CHOOSE i \in 1..Len(LowerChars) : LowerChars[i] = c]
    ELSE c

\* str.upper()
Upper(s) == [i \in 1..Len(s) |-> UpperChar(s[i])]

\* str.split('.'): the segments between the dots; a string without a dot is
\* its own single segment.
RECURSIVE Split(_)
Split(s) ==
    IF \A i \in 1..Len(s) : s[i] # "."
    THEN <<s>>
    ELSE LET i == CHOOSE k \in 1..Len(s) :
                      s[k] = "." /\ \A j \in 1..(k - 1) : s[j] # "."
         IN  <<SubSeq(s, 1, i - 1)>> \o Split(SubSeq(s, i + 1, Len(s)))

\* '.'.join(segs)
RECURSIVE Join(_)
Join(segs) ==
    IF Len(segs) = 0 THEN <<>>
    ELSE IF Len(segs) = 1 THEN segs[1]
    ELSE segs[1] \o <<".">> \o Join(Tail(segs))

\* segs[:-1]
AllButLast(segs) == SubSeq(segs, 1, Len(segs) - 1)

\* 'Date' in key
ContainsDate(key) ==
    \E i \in 1..Len(key) :
        /\ i + 3 <= Len(key)
        /\ SubSeq(key, i, i + 3) = <<"D","a","t","e">>

\* ------------------------------------------------------------------ the code's pure functions

allowed_extensions ==
    { <<"M","K","V">>, <<"A","V","I">>, <<"M","P","G">>, <<"W","M","V">>,
      <<"M","O","V">>, <<"M","4","V">>, <<"3","G","P">>, <<"M","P","E","G">>,
      <<"M","P","E">>, <<"O","G","M">>, <<"F","L","V">>, <<"D","I","V","X">>,
      <<"V","O","B">>, <<"Q","T">> }

supported_input_format(file) ==
    LET segs == Split(file)
    IN  Upper(segs[Len(segs)]) \in allowed_extensions

\* output_file of transform_video
OutputFile(file) == Join(AllButLast(Split(file))) \o <<".","M","P","4">>

\* exiftool_renamed_file of transform_video
RenamedFile(out) == out \o <<"_","o","r","i","g","i","n","a","l">>

\* os.path.join(root, filename)
PathJoin(root, filename) == root \o <<"/">> \o filename

\* datetags of transform_video: the metadata entries whose key contains 'Date'
DateTags(metadata) == { kv \in metadata : ContainsDate(kv[1]) }

\* ------------------------------------------------------------------ the disk

P_aMOV  == <<"a",".","M","O","V">>
P_aavi  == <<"a",".","a","v","i">>
P_MOV   == <<"M","O","V">>
P_atxt  == <<"a",".","t","x","t">>
P_d     == <<"d">>
N_c3gp  == <<"c",".","3","g","p">>
N_ntxt  == <<"n",".","t","x","t">>
N_cMP4  == <<"c",".","M","P","4">>

\* Paths main may be given.
ArgPaths == {P_aMOV, P_aavi, P_MOV, P_atxt, P_d}

\* Names a file of directory d may have.
DirNames == {N_c3gp, N_ntxt, N_cMP4}
DirPaths == { PathJoin(P_d, n) : n \in DirNames }

Candidates == (ArgPaths \ {P_d}) \cup DirPaths
Outputs    == { OutputFile(p) : p \in {q \in Candidates : supported_input_format(q)} }
Paths      == ArgPaths \cup DirPaths \cup Outputs \cup { RenamedFile(o) : o \in Outputs }

K_CreateDate == <<"C","r","e","a","t","e","D","a","t","e">>
K_ModifyDate == <<"M","o","d","i","f","y","D","a","t","e">>
K_Model      == <<"M","o","d","e","l">>
K_Update     == <<"U","p","d","a","t","e">>

\* What exiftool reports for the files that are on the disk before the
\* program runs.
OriginalMetadata(p) ==
    IF p = P_aMOV THEN {<<K_CreateDate, "2001">>, <<K_ModifyDate, "2002">>, <<K_Model, "cam">>}
    ELSE IF p = P_MOV THEN {<<K_CreateDate, "2003">>, <<K_Update, "2004">>}
    ELSE IF p = PathJoin(P_d, N_c3gp) THEN {<<K_ModifyDate, "2005">>}
    ELSE IF p \in Outputs THEN {<<K_CreateDate, "1999">>}
    ELSE {<<K_Model, "cam">>}

NoPath == <<>>

Absent       == [kind |-> "absent", src |-> NoPath, meta |-> {}]
Directory    == [kind |-> "dir", src |-> NoPath, meta |-> {}]
Original(p)  == [kind |-> "file", src |-> NoPath, meta |-> OriginalMetadata(p)]

\* os.path.exists
Exists(d, p) == p \in DOMAIN d /\ d[p].kind # "absent"

\* os.path.isdir
IsDir(d, p) == p \in DOMAIN d /\ d[p].kind = "dir"

\* os.remove
Remove(d, p) == [d EXCEPT ![p] = Absent]

\* subprocess.call(ffmpeg_command): ffmpeg writes output_file from input_file
Ffmpeg(d, in, out) ==
    [d EXCEPT ![out] = [kind |-> "file", src |-> in, meta |-> {}]]

\* ExifToolHelper().set_tags(files=output_file, tags=datetags): the tags are
\* set on the file; exiftool may keep the previous file as <file>_original.
SetTags(d, out, tags, backup) ==
    LET keys == { kv[1] : kv \in tags }
        new  == [d[out] EXCEPT !.meta = { kv \in @ : kv[1] \notin keys } \cup tags]
    IN  IF backup
        THEN [d EXCEPT ![out] = new, ![RenamedFile(out)] = d[out]]
        ELSE [d EXCEPT ![out] = new]

\* The files os.walk(root) finds below root, as file names.
WalkFiles(d, root) ==
    { n \in DirNames : PathJoin(root, n) \in DOMAIN d /\ d[PathJoin(root, n)].kind = "file" }

\* The orders in which os.walk may list a set of file names.
Orders(S) ==
    { s \in [1..Cardinality(S) -> S] : \A i, j \in 1..Cardinality(S) : s[i] = s[j] => i = j }

\* ------------------------------------------------------------------ the initial states

SeqsUpTo(S, n) == UNION { [1..k -> S] : k \in 0..n }

Range(s) == { s[i] : i \in 1..Len(s) }

\* The paths that may exist before the program runs, given its arguments:
\* the files named and their output files, and the content of directory d.
TopFiles(args) ==
    LET named == Range(args) \ {P_d}
    IN  named \cup { OutputFile(p) : p \in {q \in named : supported_input_format(q)} }

InitialDisks(args) ==
    { [p \in Paths |->
          IF p = P_d THEN (IF hasDir THEN Directory ELSE Absent)
          ELSE IF p \in S \/ (hasDir /\ p \in D) THEN Original(p)
          ELSE Absent] :
      S \in SUBSET TopFiles(args),
      D \in SUBSET (IF P_d \in Range(args) THEN DirPaths ELSE {}),
      hasDir \in (IF P_d \in Range(args) THEN BOOLEAN ELSE {FALSE}) }

Init ==
    /\ input_files \in SeqsUpTo(ArgPaths, MaxBatch)
    /\ recursive \in BOOLEAN
    /\ dryrun \in BOOLEAN
    /\ force \in BOOLEAN
    /\ erase \in BOOLEAN
    /\ disk \in InitialDisks(input_files)
    /\ disk0 = disk
    /\ entry_disk = disk
    /\ pc = "main"
    /\ input_file_list = <<>>
    /\ idx = 1
    /\ input_file = NoPath
    /\ output_file = NoPath
    /\ datetags = {}
    /\ run = 1
    /\ trace = <<>>

\* ------------------------------------------------------------------ the operations

Event(op, file, tags) == [op |-> op, file |-> file, tags |-> tags]

Log(op, file) == trace' = Append(trace, Event(op, file, {}))

args_vars == <<input_files, recursive, dryrun, force, erase, run, disk0>>
call_vars == <<input_file, output_file, datetags, entry_disk>>

\* main with the test of the number of paths written "< 1": a second path is
\* ignored instead of refused.
Main_AtLeastOnePath ==
    /\ pc = "main"
    /\ \/ /\ recursive
          /\ Len(input_files) < 1
          /\ Log("error_one_path", NoPath)
          /\ pc' = "done"
          /\ UNCHANGED input_file_list
       \/ /\ recursive
          /\ Len(input_files) >= 1
          /\ ~IsDir(disk, input_files[1])
          /\ Log("error_not_a_directory", input_files[1])
          /\ pc' = "done"
          /\ UNCHANGED input_file_list
       \/ /\ recursive
          /\ Len(input_files) >= 1
          /\ IsDir(disk, input_files[1])
          /\ \E order \in Orders(WalkFiles(disk, input_files[1])) :
                input_file_list' =
                    [i \in 1..Len(order) |-> PathJoin(input_files[1], order[i])]
          /\ Log("walk", input_files[1])
          /\ pc' = "dispatch"
       \/ /\ ~recursive
          /\ input_file_list' = input_files
          /\ trace' = trace
          /\ pc' = "dispatch"
    /\ UNCHANGED <<args_vars, call_vars, disk, idx>>

\* main
Main ==
    /\ pc = "main"
    /\ \/ /\ recursive
          /\ Len(input_files) # 1
          /\ Log("error_one_path", NoPath)
          /\ pc' = "done"
          /\ UNCHANGED input_file_list
       \/ /\ recursive
          /\ Len(input_files) = 1
          /\ ~IsDir(disk, input_files[1])
          /\ Log("error_not_a_directory", input_files[1])
          /\ pc' = "done"
          /\ UNCHANGED input_file_list
       \/ /\ recursive
          /\ Len(input_files) = 1
          /\ IsDir(disk, input_files[1])
          /\ \E order \in Orders(WalkFiles(disk, input_files[1])) :
                input_file_list' =
                    [i \in 1..Len(order) |-> PathJoin(input_files[1], order[i])]
          /\ Log("walk", input_files[1])
          /\ pc' = "dispatch"
       \/ /\ ~recursive
          /\ input_file_list' = input_files
          /\ trace' = trace
          /\ pc' = "dispatch"
    /\ UNCHANGED <<args_vars, call_vars, disk, idx>>

\* dispatch_transformation: one turn of the for loop, up to the call of
\* transform_video and the first lines of it (output_file, the log line)
Dispatch ==
    /\ pc = "dispatch"
    /\ \/ /\ idx > Len(input_file_list)
          /\ pc' = "done"
          /\ UNCHANGED <<idx, call_vars, trace>>
       \/ /\ idx <= Len(input_file_list)
          /\ ~supported_input_format(input_file_list[idx])
          /\ idx' = idx + 1
          /\ UNCHANGED <<pc, call_vars, trace>>
       \/ /\ idx <= Len(input_file_list)
          /\ supported_input_format(input_file_list[idx])
          /\ input_file' = input_file_list[idx]
          /\ output_file' = OutputFile(input_file_list[idx])
          /\ datetags' = {}
          /\ entry_disk' = disk
          /\ Log("transform_video", input_file_list[idx])
          /\ pc' = "tv_input"
          /\ UNCHANGED idx
    /\ UNCHANGED <<args_vars, disk, input_file_list>>

\* transform_video reading the tags only when it is going to write them:
\* a dry run reads nothing.
TvInput_NoReadInDryRun ==
    /\ pc = "tv_input"
    /\ \/ /\ ~Exists(disk, input_file)
          /\ Log("error_does_not_exist", input_file)
          /\ pc' = "tv_return"
          /\ UNCHANGED datetags
       \/ /\ Exists(disk, input_file)
          /\ dryrun
          /\ pc' = "tv_output"
          /\ UNCHANGED <<datetags, trace>>
       \/ /\ Exists(disk, input_file)
          /\ ~dryrun
          /\ datetags' = DateTags(disk[input_file].meta)
          /\ trace' = Append(trace, Event("get_metadata", input_file,
                                           DateTags(disk[input_file].meta)))
          /\ pc' = "tv_output"
    /\ UNCHANGED <<args_vars, disk, input_file_list, idx, input_file, output_file,
                   entry_disk>>

\* transform_video ending the program, not the call, on a missing input file.
TvInput_MissingEndsBatch ==
    /\ pc = "tv_input"
    /\ \/ /\ ~Exists(disk, input_file)
          /\ Log("error_does_not_exist", input_file)
          /\ pc' = "done"
          /\ UNCHANGED datetags
       \/ /\ Exists(disk, input_file)
          /\ datetags' = DateTags(disk[input_file].meta)
          /\ trace' = Append(trace, Event("get_metadata", input_file,
                                           DateTags(disk[input_file].meta)))
          /\ pc' = "tv_output"
    /\ UNCHANGED <<args_vars, disk, input_file_list, idx, input_file, output_file,
                   entry_disk>>

\* transform_video: the check of the input file and the reading of its tags
TvInput ==
    /\ pc = "tv_input"
    /\ \/ /\ ~Exists(disk, input_file)
          /\ Log("error_does_not_exist", input_file)
          /\ pc' = "tv_return"
          /\ UNCHANGED datetags
       \/ /\ Exists(disk, input_file)
          /\ datetags' = DateTags(disk[input_file].meta)
          /\ trace' = Append(trace, Event("get_metadata", input_file,
                                           DateTags(disk[input_file].meta)))
          /\ pc' = "tv_output"
    /\ UNCHANGED <<args_vars, disk, input_file_list, idx, input_file, output_file,
                   entry_disk>>

\* transform_video testing erase before force.
TvOutput_EraseBeforeForce ==
    /\ pc = "tv_output"
    /\ \/ /\ ~Exists(disk, output_file)
          /\ pc' = "tv_transform"
          /\ UNCHANGED <<disk, trace>>
       \/ /\ Exists(disk, output_file)
          /\ ~erase
          /\ force
          /\ disk' = Remove(disk, output_file)
          /\ Log("remove", output_file)
          /\ pc' = "tv_transform"
       \/ /\ Exists(disk, output_file)
          /\ erase
          /\ disk' = Remove(disk, input_file)
          /\ Log("remove", input_file)
          /\ pc' = "tv_return"
       \/ /\ Exists(disk, output_file)
          /\ ~force
          /\ ~erase
          /\ Log("skip", output_file)
          /\ pc' = "tv_return"
          /\ UNCHANGED disk
    /\ UNCHANGED <<args_vars, call_vars, input_file_list, idx>>

\* transform_video without the return after the deletion of the input file.
TvOutput_EraseFallsThrough ==
    /\ pc = "tv_output"
    /\ \/ /\ ~Exists(disk, output_file)
          /\ pc' = "tv_transform"
          /\ UNCHANGED <<disk, trace>>
       \/ /\ Exists(disk, output_file)
          /\ force
          /\ disk' = Remove(disk, output_file)
          /\ Log("remove", output_file)
          /\ pc' = "tv_transform"
       \/ /\ Exists(disk, output_file)
          /\ ~force
          /\ erase
          /\ disk' = Remove(disk, input_file)
          /\ Log("remove", input_file)
          /\ pc' = "tv_transform"
       \/ /\ Exists(disk, output_file)
          /\ ~force
          /\ ~erase
          /\ Log("skip", output_file)
          /\ pc' = "tv_return"
          /\ UNCHANGED disk
    /\ UNCHANGED <<args_vars, call_vars, input_file_list, idx>>

\* transform_video without the return after the report of a skip.
TvOutput_SkipFallsThrough ==
    /\ pc = "tv_output"
    /\ \/ /\ ~Exists(disk, output_file)
          /\ pc' = "tv_transform"
          /\ UNCHANGED <<disk, trace>>
       \/ /\ Exists(disk, output_file)
          /\ force
          /\ disk' = Remove(disk, output_file)
          /\ Log("remove", output_file)
          /\ pc' = "tv_transform"
       \/ /\ Exists(disk, output_file)
          /\ ~force
          /\ erase
          /\ disk' = Remove(disk, input_file)
          /\ Log("remove", input_file)
          /\ pc' = "tv_return"
       \/ /\ Exists(disk, output_file)
          /\ ~force
          /\ ~erase
          /\ Log("skip", output_file)
          /\ pc' = "tv_transform"
          /\ UNCHANGED disk
    /\ UNCHANGED <<args_vars, call_vars, input_file_list, idx>>

\* transform_video without the deletion of the output file under force.
TvOutput_ForceKeepsOutput ==
    /\ pc = "tv_output"
    /\ \/ /\ ~Exists(disk, output_file)
          /\ pc' = "tv_transform"
          /\ UNCHANGED <<disk, trace>>
       \/ /\ Exists(disk, output_file)
          /\ force
          /\ Log("keep", output_file)
          /\ pc' = "tv_transform"
          /\ UNCHANGED disk
       \/ /\ Exists(disk, output_file)
          /\ ~force
          /\ erase
          /\ disk' = Remove(disk, input_file)
          /\ Log("remove", input_file)
          /\ pc' = "tv_return"
       \/ /\ Exists(disk, output_file)
          /\ ~force
          /\ ~erase
          /\ Log("skip", output_file)
          /\ pc' = "tv_return"
          /\ UNCHANGED disk
    /\ UNCHANGED <<args_vars, call_vars, input_file_list, idx>>

\* transform_video: the check of the output file
TvOutput ==
    /\ pc = "tv_output"
    /\ \/ /\ ~Exists(disk, output_file)
          /\ pc' = "tv_transform"
          /\ UNCHANGED <<disk, trace>>
       \/ /\ Exists(disk, output_file)
          /\ force
          /\ disk' = Remove(disk, output_file)
          /\ Log("remove", output_file)
          /\ pc' = "tv_transform"
       \/ /\ Exists(disk, output_file)
          /\ ~force
          /\ erase
          /\ disk' = Remove(disk, input_file)
          /\ Log("remove", input_file)
          /\ pc' = "tv_return"
       \/ /\ Exists(disk, output_file)
          /\ ~force
          /\ ~erase
          /\ Log("skip", output_file)
          /\ pc' = "tv_return"
          /\ UNCHANGED disk
    /\ UNCHANGED <<args_vars, call_vars, input_file_list, idx>>

\* transform_video: the transformation, unless this is a dry run
TvTransform ==
    /\ pc = "tv_transform"
    /\ \/ /\ dryrun
          /\ Log("transform_now", input_file)
          /\ pc' = "tv_return"
          /\ UNCHANGED disk
       \/ /\ ~dryrun
          /\ disk' = Ffmpeg(disk, input_file, output_file)
          /\ trace' = trace \o <<Event("transform_now", input_file, {}),
                                 Event("ffmpeg", input_file, {})>>
          /\ pc' = "tv_set_tags"
    /\ UNCHANGED <<args_vars, call_vars, input_file_list, idx>>

\* transform_video: the date tags are written onto the output file
TvSetTags ==
    /\ pc = "tv_set_tags"
    /\ \E backup \in BOOLEAN : disk' = SetTags(disk, output_file, datetags, backup)
    /\ trace' = Append(trace, Event("set_tags", output_file, datetags))
    /\ pc' = "tv_cleanup"
    /\ UNCHANGED <<args_vars, call_vars, input_file_list, idx>>

\* transform_video: the file exiftool renamed is removed
TvCleanup ==
    /\ pc = "tv_cleanup"
    /\ \/ /\ Exists(disk, RenamedFile(output_file))
          /\ disk' = Remove(disk, RenamedFile(output_file))
          /\ trace' = trace \o <<Event("cleanup", RenamedFile(output_file), {}),
                                 Event("remove", RenamedFile(output_file), {})>>
       \/ /\ ~Exists(disk, RenamedFile(output_file))
          /\ Log("cleanup", RenamedFile(output_file))
          /\ UNCHANGED disk
    /\ pc' = "tv_return"
    /\ UNCHANGED <<args_vars, call_vars, input_file_list, idx>>

\* transform_video returns to the for loop of dispatch_transformation
TvReturn ==
    /\ pc = "tv_return"
    /\ idx' = idx + 1
    /\ input_file' = NoPath
    /\ output_file' = NoPath
    /\ datetags' = {}
    /\ pc' = "dispatch"
    /\ UNCHANGED <<args_vars, disk, input_file_list, entry_disk, trace>>

\* The program is run again on the same arguments, with no flag, after a run
\* that was not a dry run.
Rerun ==
    /\ pc = "done"
    /\ ~dryrun
    /\ run < MaxRuns
    /\ run' = run + 1
    /\ force' = FALSE
    /\ erase' = FALSE
    /\ disk0' = disk
    /\ entry_disk' = disk
    /\ trace' = <<>>
    /\ input_file_list' = <<>>
    /\ idx' = 1
    /\ pc' = "main"
    /\ UNCHANGED <<input_files, recursive, dryrun, disk, input_file, output_file, datetags>>

Next ==
    \/ Main
    \/ Dispatch
    \/ TvInput
    \/ TvOutput
    \/ TvTransform
    \/ TvSetTags
    \/ TvCleanup
    \/ TvReturn
    \/ Rerun

Spec == Init /\ [][Next]_vars

\* ------------------------------------------------------------------ transform_video as a whole

\* The branch transform_video takes for a file and the disk it leaves, from
\* the disk it finds.
TransformVideo(d, file) ==
    LET out == OutputFile(file)
        transformed(e) ==
            IF dryrun THEN e
            ELSE Remove(SetTags(Ffmpeg(e, file, out), out, DateTags(e[file].meta), FALSE),
                        RenamedFile(out))
    IN  IF ~Exists(d, file) THEN [disk |-> d, branch |-> "abort"]
        ELSE IF ~Exists(d, out) THEN [disk |-> transformed(d), branch |-> "transcode"]
        ELSE IF force THEN [disk |-> transformed(Remove(d, out)), branch |-> "transcode"]
        ELSE IF erase THEN [disk |-> Remove(d, file), branch |-> "erase"]
        ELSE [disk |-> d, branch |-> "skip"]

\* dispatch_transformation as a whole: the disk it leaves and the branch taken
\* for each file that passes the filter.
RECURSIVE DispatchTransformation(_, _)
DispatchTransformation(d, files) ==
    IF Len(files) = 0 THEN [disk |-> d, branches |-> <<>>]
    ELSE IF ~supported_input_format(Head(files))
    THEN DispatchTransformation(d, Tail(files))
    ELSE LET one  == TransformVideo(d, Head(files))
             rest == DispatchTransformation(one.disk, Tail(files))
         IN  [disk |-> rest.disk, branches |-> <<one.branch>> \o rest.branches]

\* ------------------------------------------------------------------ reading the history

TvPcs == {"tv_input", "tv_output", "tv_transform", "tv_set_tags", "tv_cleanup", "tv_return"}

InCall == pc \in TvPcs

\* The positions of the calls of transform_video in the trace.
CallIdx == SelectSeq([i \in 1..Len(trace) |-> i], LAMBDA i : trace[i].op = "transform_video")

\* The operations of the k-th call of transform_video of this invocation.
CallOps(k) ==
    SubSeq(trace, CallIdx[k],
           IF k < Len(CallIdx) THEN CallIdx[k + 1] - 1 ELSE Len(trace))

\* The operations of the call in progress.
CurOps == CallOps(Len(CallIdx))

Has(ops, op, file) == \E i \in 1..Len(ops) : ops[i].op = op /\ ops[i].file = file

HasOp(ops, op) == \E i \in 1..Len(ops) : ops[i].op = op

OpNames(ops) == [i \in 1..Len(ops) |-> ops[i].op]

\* The branch a finished call took, read from its operations.
BranchOf(ops) ==
    IF HasOp(ops, "error_does_not_exist") THEN "abort"
    ELSE IF HasOp(ops, "skip") THEN "skip"
    ELSE IF HasOp(ops, "transform_now") THEN "transcode"
    ELSE "erase"

\* The step machine and the summary of transform_video agree.
StepsMatchSummary ==
    pc = "tv_return" =>
        /\ disk = TransformVideo(entry_disk, input_file).disk
        /\ BranchOf(CurOps) = TransformVideo(entry_disk, input_file).branch

TypeOK ==
    /\ pc \in {"main", "dispatch", "tv_input", "tv_output", "tv_transform",
               "tv_set_tags", "tv_cleanup", "tv_return", "done"}
    /\ DOMAIN disk = Paths
    /\ idx \in 1..(Len(input_file_list) + 1)
\* ------------------------------------------------------------------ properties

\* The files for which this invocation called transform_video, in order.
Called == [k \in 1..Len(CallIdx) |-> trace[CallIdx[k]].file]

\* The names the filter is claimed to accept: those with a "." whose part
\* after the last "." is, whatever its case, one of the allowed extensions.
HasAllowedExtension(name) ==
    \E k \in 1..Len(name) :
        /\ name[k] = "."
        /\ \A j \in (k + 1)..Len(name) : name[j] # "."
        /\ Upper(SubSeq(name, k + 1, Len(name))) \in allowed_extensions

\* The precondition of the claims about a call: what the call found on disk.
InputExisted  == Exists(entry_disk, input_file)
OutputExisted == Exists(entry_disk, output_file)

\* C1: with dryrun set, when dispatch_transformation has returned, every file
\* of the batch that existed before still exists and no output path that was
\* absent before exists, whatever force and erase are.  (Stated for the
\* batches of names that have an allowed extension.)
C1_DryRunTouchesNoFile ==
    (pc = "done" /\ dryrun /\ \A p \in Range(input_file_list) : HasAllowedExtension(p)) =>
        /\ \A p \in Range(input_file_list) : Exists(disk0, p) => Exists(disk, p)
        /\ \A p \in Range(input_file_list) :
               (supported_input_format(p) /\ ~Exists(disk0, OutputFile(p)))
                   => ~Exists(disk, OutputFile(p))

\* C2 as stated: whenever the output file exists and force is set, a call of
\* transform_video deletes the output file, reaches the transcode step and
\* does not delete the input file, for either value of erase.
C2_ForceWinsWheneverOutputExists ==
    (pc = "tv_return" /\ OutputExisted /\ force) =>
        /\ Has(CurOps, "remove", output_file)
        /\ HasOp(CurOps, "transform_now")
        /\ ~Has(CurOps, "remove", input_file)

\* C2 as amended: when the input file exists, the output file exists and
\* force is set, a call of transform_video deletes the output file, then
\* reaches the transcode step, and never deletes the input file, for either
\* value of erase.
C2_ForceWinsOverErase ==
    (InCall /\ InputExisted /\ OutputExisted /\ force) =>
        /\ ~Has(CurOps, "remove", input_file)
        /\ Exists(disk, input_file)
        /\ pc = "tv_return" =>
              \E i, j \in 1..Len(CurOps) :
                  /\ i < j
                  /\ CurOps[i] = Event("remove", output_file, {})
                  /\ CurOps[j].op = "transform_now"

C2_Witness ==
    /\ pc = "tv_return" /\ InputExisted /\ OutputExisted /\ force /\ erase
    /\ Has(CurOps, "remove", output_file)
    /\ HasOp(CurOps, "transform_now")

\* C3: when the input exists, the output exists, force is not set and erase
\* is set, a call of transform_video deletes the input file, invokes neither
\* the transcoder nor the tag write, and leaves the output file (and every
\* other path) as it was.
C3_EraseDeletesInputOnly ==
    (InCall /\ InputExisted /\ OutputExisted /\ ~force /\ erase) =>
        /\ ~HasOp(CurOps, "ffmpeg")
        /\ ~HasOp(CurOps, "set_tags")
        /\ ~HasOp(CurOps, "transform_now")
        /\ \A p \in Paths \ {input_file} : disk[p] = entry_disk[p]
        /\ disk[output_file].kind = "file"
        /\ pc = "tv_return" =>
              /\ ~Exists(disk, input_file)
              /\ Has(CurOps, "remove", input_file)

C3_Witness ==
    /\ pc = "tv_return" /\ InputExisted /\ OutputExisted /\ ~force /\ erase
    /\ ~Exists(disk, input_file)
    /\ disk[output_file] = entry_disk[output_file]

\* C4: when the input exists, the output exists and neither force nor erase
\* is set, a call of transform_video changes no file, invokes neither the
\* transcoder nor the tag write, and reports a skip; and a run with no flags
\* of the same batch after a run that was not a dry run invokes the
\* transcoder for no file.
C4_SkipTouchesNothing ==
    /\ (InCall /\ InputExisted /\ OutputExisted /\ ~force /\ ~erase) =>
          /\ disk = entry_disk
          /\ ~HasOp(CurOps, "ffmpeg")
          /\ ~HasOp(CurOps, "set_tags")
          /\ ~HasOp(CurOps, "remove")
          /\ pc = "tv_return" => Has(CurOps, "skip", output_file)
    /\ run > 1 => ~HasOp(trace, "ffmpeg")

C4_Witness ==
    /\ run > 1
    /\ pc = "tv_return" /\ InputExisted /\ OutputExisted /\ ~force /\ ~erase
    /\ Has(CurOps, "skip", output_file)
    /\ disk[output_file].src = input_file

\* C5: given an existing input, an existing output, force and no dry run, a
\* call of transform_video performs, in this order: the reading of the tags,
\* the deletion of the output file, one invocation of the transcoder for the
\* input, the tag write on the output, the backup cleanup; the transcoder
\* finds the output path absent, and at the end the output path exists again,
\* written by the transcoder from this input.
C5_ForceRegenerates ==
    LET pre == InputExisted /\ OutputExisted /\ force /\ ~dryrun
        order == <<"transform_video", "get_metadata", "remove", "transform_now",
                   "ffmpeg", "set_tags", "cleanup">>
    IN  /\ (pc = "tv_transform" /\ pre) => ~Exists(disk, output_file)
        /\ (pc = "tv_return" /\ pre) =>
              /\ OpNames(CurOps) \in {order, Append(order, "remove")}
              /\ CurOps[3].file = output_file
              /\ CurOps[5].file = input_file
              /\ CurOps[6].file = output_file
              /\ CurOps[7].file = RenamedFile(output_file)
              /\ Len(CurOps) = 8 => CurOps[8].file = RenamedFile(output_file)
              /\ Exists(disk, output_file)
              /\ disk[output_file].src = input_file
              /\ ~Exists(disk, RenamedFile(output_file))

C5_Witness ==
    /\ pc = "tv_return" /\ InputExisted /\ OutputExisted /\ force /\ ~dryrun
    /\ entry_disk[output_file].src = NoPath
    /\ disk[output_file].src = input_file
    /\ Has(CurOps, "remove", RenamedFile(output_file))

\* main is in recursive mode and is not given exactly one path that is a
\* directory.
BadConfiguration ==
    recursive /\ (Len(input_files) # 1 \/ ~IsDir(disk0, input_files[1]))

\* C6: in recursive mode, if main is not given exactly one path, or the path
\* is not an existing directory, main reports one configuration error and
\* does nothing else: no walk, no call of transform_video, no tag read, no
\* deletion, no transcoder invocation, no change of the disk.
C6_RecursiveConfigError ==
    BadConfiguration =>
        /\ pc \in {"main", "done"}
        /\ disk = disk0
        /\ input_file_list = <<>>
        /\ pc = "main" => trace = <<>>
        /\ pc = "done" =>
              \/ /\ Len(input_files) # 1
                 /\ trace = <<Event("error_one_path", NoPath, {})>>
              \/ /\ Len(input_files) = 1
                 /\ trace = <<Event("error_not_a_directory", input_files[1], {})>>

C6_Witness ==
    /\ pc = "done" /\ recursive /\ Len(input_files) = 2
    /\ IsDir(disk0, input_files[1])
    /\ \E p \in Range(input_files) : supported_input_format(p) /\ Exists(disk, p)
    /\ trace = <<Event("error_one_path", NoPath, {})>>

\* What a run of transform_video did to a path: whether it changed it, and
\* to what.
Effect(before, after, p) ==
    [changed |-> before[p] # after[p],
     now     |-> IF before[p] # after[p] THEN after[p] ELSE Absent]

\* C7: for a file that comes after other files of the batch, the branch
\* transform_video takes and what it does to the file's input and output
\* paths are what they are when the file is processed alone, from the disk
\* the invocation started with.  (Stated for the batches of names that have
\* an allowed extension, processed with dryrun not set.)
C7_RunsAreIndependent ==
    ( /\ pc = "tv_return"
      /\ ~dryrun
      /\ \A p \in Range(input_file_list) : HasAllowedExtension(p)
      /\ \A j \in 1..(idx - 1) : input_file_list[j] # input_file ) =>
        LET alone == TransformVideo(disk0, input_file)
        IN  /\ BranchOf(CurOps) = alone.branch
            /\ \A p \in {input_file, output_file} :
                   Effect(entry_disk, disk, p) = Effect(disk0, alone.disk, p)

\* C8: in every call of transform_video that finds its input, dry run or
\* not, output present or not, the date tags of the input are read once,
\* before any deletion, transcoder invocation or tag write of the call, and
\* the tags written to the output are the tags read.
C8_TagsReadFirst ==
    InCall =>
        /\ pc = "tv_input" => (Len(CurOps) = 1 /\ disk = entry_disk)
        /\ (InputExisted /\ pc # "tv_input") =>
              /\ Len(CurOps) >= 2
              /\ CurOps[2] = Event("get_metadata", input_file,
                                   DateTags(entry_disk[input_file].meta))
              /\ datetags = CurOps[2].tags
              /\ \A i \in 3..Len(CurOps) : CurOps[i].op # "get_metadata"
        /\ \A i \in 1..Len(CurOps) :
              CurOps[i].op \in {"remove", "ffmpeg", "set_tags"} =>
                  /\ i > 2
                  /\ CurOps[2].op = "get_metadata"
        /\ \A i \in 1..Len(CurOps) :
              CurOps[i].op = "set_tags" =>
                  /\ CurOps[i].file = output_file
                  /\ CurOps[i].tags = CurOps[2].tags
                  /\ disk[output_file].meta = CurOps[2].tags

C8_Witness ==
    /\ pc = "tv_return" /\ InputExisted /\ OutputExisted /\ force
    /\ HasOp(CurOps, "set_tags")
    /\ datetags # {}
    /\ datetags # entry_disk[input_file].meta
    /\ disk[output_file].meta = datetags

\* C9: a call of transform_video for an input file that does not exist
\* reports the error and does nothing else, whatever the flags and whether
\* or not the output path exists; the loop goes on, and the invocation ends
\* with the disk and the branches that the batch without the missing files
\* gives.
C9_MissingInput ==
    /\ (InCall /\ pc # "tv_input" /\ ~InputExisted) =>
          /\ pc = "tv_return"
          /\ CurOps = <<Event("transform_video", input_file, {}),
                        Event("error_does_not_exist", input_file, {})>>
          /\ disk = entry_disk
    /\ pc = "done" =>
          LET found == SelectSeq([k \in 1..Len(CallIdx) |-> k],
                                 LAMBDA k : BranchOf(CallOps(k)) # "abort")
              without == DispatchTransformation(disk0,
                             [i \in 1..Len(found) |-> Called[found[i]]])
          IN  /\ Called = SelectSeq(input_file_list, supported_input_format)
              /\ without.disk = disk
              /\ without.branches =
                     [i \in 1..Len(found) |-> BranchOf(CallOps(found[i]))]

C9_Witness ==
    /\ pc = "done"
    /\ \E k \in 1..(Len(CallIdx) - 1) :
          /\ BranchOf(CallOps(k)) = "abort"
          /\ Exists(disk0, OutputFile(Called[k]))
          /\ HasOp(CallOps(k + 1), "ffmpeg")

\* C10: supported_input_format is true exactly for the names with an allowed
\* extension after their last ".", and dispatch_transformation calls
\* transform_video for exactly those candidates, once each, in list order.
C10_FilterByExtension ==
    /\ pc = "done" =>
          \A p \in Range(input_file_list) :
              supported_input_format(p) <=> HasAllowedExtension(p)
    /\ \A k \in 1..Len(Called) : HasAllowedExtension(Called[k])
    /\ pc = "done" => Called = SelectSeq(input_file_list, HasAllowedExtension)
====
